---- MODULE Spec2Model ----
(***************************************************************************)
(* Model of the drone navigation simulator (DroneSimulation component):    *)
(* grid planner (astar + smoothPath), tree planner (rrt), field planner    *)
(* (apfNavigate), range sensor (simulateLidar), the click handler and the  *)
(* per-frame step (animate).                                               *)
(*                                                                         *)
(* Numbers.  The program computes in IEEE doubles.  The model uses fixed   *)
(* point: every length, coordinate and velocity is an integer number of    *)
(* 1/FP pixel, the battery an integer number of 1/BFP percent, the speed   *)
(* multiplier an integer number of tenths.  Products that the program      *)
(* forms are formed here and rounded to the nearest unit (RDiv).  Costs of *)
(* the grid search are exact: a + b*sqrt(2) is the pair <<a, b>>.          *)
(* Angles: the sweep of the range sensor uses direction vectors with       *)
(* rational components, the steering of the tree planner divides by the    *)
(* rounded length of the offset (no angle is formed); the heading, which   *)
(* only rotates the sweep and the drawing, is not part of the state.       *)
(* In an action, \E x \in {e} : ... names the value of e, as a local       *)
(* variable of the handler does.                                           *)
(***************************************************************************)
EXTENDS Integers, Sequences, FiniteSets, TLC

(* ---------------- program constants ---------------- *)
GRID_SIZE == 15
LIDAR_RANGE == 120
SAFE_DISTANCE == 40
DRONE_RADIUS == 12
clickMargin == 15
stepSize == 25
arrivalThreshold == 20
waypointRadius == 15
startX == 50

(* ---------------- resolution and bounds ---------------- *)
\* Units per pixel of every coordinate (type number of Vec2).
FP == 100
\* Units per percent of the battery level.
BFP == 1000
\* The canvas (700 x 400 in the page) scaled down.
canvasWidth == 160
canvasHeight == 110
\* The iteration budget of rrt (1500 in the program) scaled down.
maxIterations == 3
\* Frames and user inputs of one run.
MaxTicks == 3
MaxEvents == 2
\* Frames of a long flight, the frames between two clicks of it, and its clicks.
FlightTicks == 90
InputPeriod == 20
MaxRequests == 2
\* Frames of a run of the obstacle field on its own.
DriftTicks == 30
\* Longest raw path handed to the smoothing on its own.
MaxRaw == 4
\* Frames of a run of the range sensor on its own.
SenseTicks == 2

Null == [null |-> TRUE]

W == canvasWidth * FP
H == canvasHeight * FP

(* ---------------- arithmetic ---------------- *)
Abs(a) == IF a < 0 THEN -a ELSE a
Min2(a, b) == IF a < b THEN a ELSE b
Max2(a, b) == IF a > b THEN a ELSE b
Sign(a) == IF a < 0 THEN -1 ELSE IF a > 0 THEN 1 ELSE 0

\* floor(a / b) and ceil(a / b), b > 0
FloorDiv(a, b) == IF a >= 0 THEN a \div b ELSE -((-a + b - 1) \div b)
CeilDiv(a, b) == -FloorDiv(-a, b)
\* a / b rounded to the nearest integer, halves away from zero, b > 0
RDiv(a, b) == IF a >= 0 THEN (2 * a + b) \div (2 * b) ELSE -((2 * (-a) + b) \div (2 * b))
\* a / b rounded toward zero, b > 0
TDiv(a, b) == IF a >= 0 THEN a \div b ELSE -((-a) \div b)
\* Math.round(a / b): floor(a / b + 1/2)
MathRound(a, b) == FloorDiv(2 * a + b, 2 * b)

RECURSIVE SqrtSearch(_, _, _)
SqrtSearch(n, lo, hi) ==
  IF lo >= hi THEN lo
  ELSE LET mid == (lo + hi + 1) \div 2
       IN IF mid * mid <= n THEN SqrtSearch(n, mid, hi) ELSE SqrtSearch(n, lo, mid - 1)
\* floor(sqrt(n)), 0 <= n < 2^31
ISqrt(n) == SqrtSearch(n, 0, 46340)

\* Math.hypot(dx, dy) in units, rounded down
Hypot(dx, dy) == ISqrt(dx * dx + dy * dy)
\* Math.hypot(dx, dy) < r, exactly
HypotLess(dx, dy, r) == dx * dx + dy * dy < r * r

Pt(x, y) == [x |-> x, y |-> y]

(* ---------------- obstacles ---------------- *)
\* px, py strictly inside the bound of obs grown by margin on every side
InsideInflated(px, py, obs, margin) ==
  /\ px > obs.x - margin
  /\ px < obs.x + obs.width + margin
  /\ py > obs.y - margin
  /\ py < obs.y + obs.height + margin

(* ---------------- line of sight ---------------- *)
\* Math.ceil(Math.hypot(dx, dy) / 5): the least n with (5 n)^2 >= dx^2 + dy^2
LosSteps(a, b) ==
  LET d2 == (b.x - a.x) * (b.x - a.x) + (b.y - a.y) * (b.y - a.y)
      r == ISqrt(d2)
      h == IF r * r = d2 THEN r ELSE r + 1
  IN CeilDiv(h, 5 * FP)

\* Sample i of steps on the segment a-b lies inside obs grown by DRONE_RADIUS.
\* The sample is a + (b - a) * i / steps; the comparison is multiplied by steps.
LosSampleHits(a, b, i, steps, obs) ==
  LET sx == a.x * steps + (b.x - a.x) * i
      sy == a.y * steps + (b.y - a.y) * i
      R == DRONE_RADIUS * FP
  IN /\ sx > (obs.x - R) * steps
     /\ sx < (obs.x + obs.width + R) * steps
     /\ sy > (obs.y - R) * steps
     /\ sy < (obs.y + obs.height + R) * steps

\* With steps = 0 the one sample is NaN, which is inside nothing.
hasLineOfSight(a, b, obstacles) ==
  LET steps == LosSteps(a, b)
  IN IF steps = 0 THEN TRUE
     ELSE \A i \in 0..steps : \A k \in 1..Len(obstacles) :
            ~LosSampleHits(a, b, i, steps, obstacles[k])

(* ---------------- grid planner ---------------- *)
gridW == CeilDiv(canvasWidth, GRID_SIZE)
gridH == CeilDiv(canvasHeight, GRID_SIZE)
inflation == CeilDiv(DRONE_RADIUS, GRID_SIZE)

\* The cells one obstacle adds to the occupancy set.
OccupiedBy(obs) ==
  LET G == GRID_SIZE * FP
      minGx == FloorDiv(obs.x - inflation * G, G)
      maxGx == CeilDiv(obs.x + obs.width + inflation * G, G)
      minGy == FloorDiv(obs.y - inflation * G, G)
      maxGy == CeilDiv(obs.y + obs.height + inflation * G, G)
  IN (minGx..maxGx) \X (minGy..maxGy)

occupied(obstacles) == UNION {OccupiedBy(obstacles[k]) : k \in 1..Len(obstacles)}

CellOf(p) == <<MathRound(p.x, GRID_SIZE * FP), MathRound(p.y, GRID_SIZE * FP)>>
CellPoint(c) == Pt(c[1] * GRID_SIZE * FP, c[2] * GRID_SIZE * FP)

\* p < q * sqrt(2)
LtSqrt2(p, q) ==
  IF q > 0 THEN p <= 0 \/ p * p < 2 * q * q
  ELSE IF q = 0 THEN p < 0
  ELSE p < 0 /\ p * p > 2 * q * q

\* Costs a + b * sqrt(2) as <<a, b>>.
CostAdd(c, d) == <<c[1] + d[1], c[2] + d[2]>>
CostLess(c, d) == LtSqrt2(c[1] - d[1], d[2] - c[2])

\* A heuristic three times the octile distance, which overestimates: the
\* variant that C21 must tell from the program.
heuristicInflated(a, b) ==
  LET dx == Abs(a[1] - b[1])
      dy == Abs(a[2] - b[2])
  IN <<3 * (Max2(dx, dy) - Min2(dx, dy)), 3 * Min2(dx, dy)>>

\* max(dx, dy) + (sqrt(2) - 1) * min(dx, dy)
heuristic(a, b) ==
  LET dx == Abs(a[1] - b[1])
      dy == Abs(a[2] - b[2])
  IN <<Max2(dx, dy) - Min2(dx, dy), Min2(dx, dy)>>

directions ==
  << [dx |-> 1, dy |-> 0, cost |-> <<1, 0>>],
     [dx |-> -1, dy |-> 0, cost |-> <<1, 0>>],
     [dx |-> 0, dy |-> 1, cost |-> <<1, 0>>],
     [dx |-> 0, dy |-> -1, cost |-> <<1, 0>>],
     [dx |-> 1, dy |-> 1, cost |-> <<0, 1>>],
     [dx |-> -1, dy |-> 1, cost |-> <<0, 1>>],
     [dx |-> 1, dy |-> -1, cost |-> <<0, 1>>],
     [dx |-> -1, dy |-> -1, cost |-> <<0, 1>>] >>

\* openSet.sort((a, b) => a.f - b.f): stable, so equal f keep their order.
RECURSIVE InsertByF(_, _)
InsertByF(sorted, n) ==
  IF sorted = <<>> THEN <<n>>
  ELSE LET last == sorted[Len(sorted)]
       IN IF CostLess(n.f, last.f)
          THEN Append(InsertByF(SubSeq(sorted, 1, Len(sorted) - 1), n), last)
          ELSE Append(sorted, n)

RECURSIVE SortByF(_)
SortByF(s) ==
  IF s = <<>> THEN <<>>
  ELSE InsertByF(SortByF(SubSeq(s, 1, Len(s) - 1)), s[Len(s)])

\* Smoothing that jumps to the last point without looking: the variant that
\* C7 must tell from the program.
FurthestBlind(path, current, obstacles) == Len(path)

\* Path smoothing: from each kept point jump to the furthest later point in
\* line of sight, or to the next point when none is.
Furthest(path, current, obstacles) ==
  LET cands == {i \in (current + 2)..Len(path) : hasLineOfSight(path[current], path[i], obstacles)}
  IN IF cands = {} THEN current + 1
     ELSE CHOOSE i \in cands : \A j \in cands : j <= i

\* Smoothing whose loop stops one point early: the variant that C18 must
\* tell from the program.
RECURSIVE SmoothFromShort(_, _, _, _)
SmoothFromShort(path, current, smoothed, obstacles) ==
  IF current < Len(path) - 1
  THEN LET furthest == Furthest(path, current, obstacles)
       IN SmoothFromShort(path, furthest, Append(smoothed, path[furthest]), obstacles)
  ELSE smoothed

\* The loop of smoothPath, current 1-based.
RECURSIVE SmoothFrom(_, _, _, _)
SmoothFrom(path, current, smoothed, obstacles) ==
  IF current < Len(path)
  THEN LET furthest == Furthest(path, current, obstacles)
       IN SmoothFrom(path, furthest, Append(smoothed, path[furthest]), obstacles)
  ELSE smoothed

smoothPath(path, obstacles) ==
  IF Len(path) <= 2 THEN path
  ELSE SmoothFrom(path, 1, <<path[1]>>, obstacles)

\* Index of the open node at cell c, or 0 (openSet.find).
FindOpen(openSet, c) ==
  LET hits == {i \in 1..Len(openSet) : openSet[i].cell = c}
  IN IF hits = {} THEN 0 ELSE CHOOSE i \in hits : \A j \in hits : i <= j

\* The neighbour loop without the test of the occupancy set: the variant that
\* C22 must tell from the program.
RECURSIVE ExpandThroughObstacles(_, _, _, _, _, _)
ExpandThroughObstacles(openSet, current, closedSet, occ, goalCell, k) ==
  IF k > Len(directions) THEN openSet
  ELSE
    LET dir == directions[k]
        nx == current.cell[1] + dir.dx
        ny == current.cell[2] + dir.dy
        key == <<nx, ny>>
        g == CostAdd(current.g, dir.cost)
        f == CostAdd(g, heuristic(key, goalCell))
        idx == FindOpen(openSet, key)
        next ==
          IF nx < 0 \/ nx >= gridW \/ ny < 0 \/ ny >= gridH THEN openSet
          ELSE IF key \in closedSet THEN openSet
          ELSE IF idx # 0
               THEN IF CostLess(g, openSet[idx].g)
                    THEN [openSet EXCEPT ![idx] = [cell |-> key, g |-> g, f |-> f, parent |-> current.cell]]
                    ELSE openSet
               ELSE Append(openSet, [cell |-> key, g |-> g, f |-> f, parent |-> current.cell])
    IN ExpandThroughObstacles(next, current, closedSet, occ, goalCell, k + 1)

\* The neighbour loop of one expansion, directions k..8 in order.
RECURSIVE Expand(_, _, _, _, _, _)
Expand(openSet, current, closedSet, occ, goalCell, k) ==
  IF k > Len(directions) THEN openSet
  ELSE
    LET dir == directions[k]
        nx == current.cell[1] + dir.dx
        ny == current.cell[2] + dir.dy
        key == <<nx, ny>>
        g == CostAdd(current.g, dir.cost)
        f == CostAdd(g, heuristic(key, goalCell))
        idx == FindOpen(openSet, key)
        next ==
          IF nx < 0 \/ nx >= gridW \/ ny < 0 \/ ny >= gridH THEN openSet
          ELSE IF key \in closedSet THEN openSet
          ELSE IF key \in occ THEN openSet
          ELSE IF idx # 0
               THEN IF CostLess(g, openSet[idx].g)
                    THEN [openSet EXCEPT ![idx] = [cell |-> key, g |-> g, f |-> f, parent |-> current.cell]]
                    ELSE openSet
               ELSE Append(openSet, [cell |-> key, g |-> g, f |-> f, parent |-> current.cell])
    IN Expand(next, current, closedSet, occ, goalCell, k + 1)

\* Walk the parent links from cell c back to the start; closed holds the
\* node of every closed cell as it was when it was popped.
RECURSIVE Reconstruct(_, _, _)
Reconstruct(c, closed, acc) ==
  IF c = Null THEN acc
  ELSE Reconstruct(closed[c].parent, closed, <<CellPoint(c)>> \o acc)

\* One pass of the while loop on the search s: the open set, the closed set,
\* the closed nodes as they were popped, the order they were popped in and
\* the count of passes.  A search that has ended stays as it is.
AstarStep(s, occ, goalCell) ==
  IF s.done THEN s
  ELSE IF s.openSet = <<>> THEN [s EXCEPT !.done = TRUE]
  ELSE
    LET sorted == SortByF(s.openSet)
        current == Head(sorted)
    IN IF current.cell = goalCell
       THEN [s EXCEPT !.done = TRUE, !.found = TRUE,
                      !.popped = Append(s.popped, current),
                      !.nodesExplored = s.nodesExplored + 1]
       ELSE [openSet |-> Expand(Tail(sorted), current, s.closedSet \cup {current.cell}, occ, goalCell, 1),
             closedSet |-> s.closedSet \cup {current.cell},
             closed |-> (current.cell :> current) @@ s.closed,
             popped |-> Append(s.popped, current),
             nodesExplored |-> s.nodesExplored + 1,
             done |-> FALSE, found |-> FALSE]

\* The main loop: n passes from search s, the first half of them and then,
\* unless the search has ended, the rest.  Every pass closes a cell that was
\* open, so gridW * gridH passes and one more, which finds the open set
\* empty, end every search.
RECURSIVE AstarLoop(_, _, _, _)
AstarLoop(s, n, occ, goalCell) ==
  IF s.done \/ n = 0 THEN s
  ELSE IF n = 1 THEN AstarStep(s, occ, goalCell)
  ELSE AstarLoop(AstarLoop(s, n \div 2, occ, goalCell), n - n \div 2, occ, goalCell)

\* The result carries, besides what astar returns, the raw route before
\* smoothing, the closed nodes and the order they were popped in.
astar(start, goal, obstacles) ==
  LET startCell == CellOf(start)
      goalCell == CellOf(goal)
      h == heuristic(startCell, goalCell)
      startNode == [cell |-> startCell, g |-> <<0, 0>>, f |-> h, parent |-> Null]
      s == AstarLoop([openSet |-> <<startNode>>, closedSet |-> {}, closed |-> <<>>, popped |-> <<>>,
                      nodesExplored |-> 0, done |-> FALSE, found |-> FALSE],
                     gridW * gridH + 1, occupied(obstacles), goalCell)
      current == s.popped[Len(s.popped)]
      raw == IF s.found
             THEN Reconstruct(current.parent, s.closed, <<CellPoint(current.cell)>>)
             ELSE <<>>
  IN [path |-> IF s.found THEN smoothPath(raw, obstacles) ELSE <<>>,
      raw |-> raw, nodesExplored |-> s.nodesExplored, closed |-> s.closed, popped |-> s.popped]

(* ---------------- tree planner ---------------- *)
\* One draw of the sampler: bias is Math.random() < goalBias, p the uniform
\* point that is used otherwise.
Sample(draw, goal) == IF draw.bias THEN goal ELSE draw.p

Dist2(a, b) == (a.x - b.x) * (a.x - b.x) + (a.y - b.y) * (a.y - b.y)

\* Linear scan for the nearest node: the first index of least distance.
NearestIdx(tree, sample) ==
  CHOOSE i \in 1..Len(tree) :
    /\ \A j \in 1..Len(tree) : Dist2(tree[i].point, sample) <= Dist2(tree[j].point, sample)
    /\ \A j \in 1..(i - 1) : Dist2(tree[j].point, sample) > Dist2(tree[i].point, sample)

\* nearest + stepSize * (cos angle, sin angle), angle = atan2(dy, dx);
\* atan2(0, 0) is 0.
Steer(nearest, sample) ==
  LET dx == sample.x - nearest.x
      dy == sample.y - nearest.y
      d == Hypot(dx, dy)
  IN IF d = 0 THEN Pt(nearest.x + stepSize * FP, nearest.y)
     ELSE Pt(nearest.x + RDiv(stepSize * FP * dx, d), nearest.y + RDiv(stepSize * FP * dy, d))

\* The ancestors of node idx put in front of acc (path.unshift), up to the
\* root; nodes are numbered from 1 and parent 0 is the root's -1.
RECURSIVE RrtBranch(_, _, _)
RrtBranch(tree, idx, acc) ==
  IF tree[idx].parent = 0 THEN acc
  ELSE RrtBranch(tree, tree[idx].parent, <<tree[tree[idx].parent].point>> \o acc)

RECURSIVE RrtLoop(_, _, _, _, _, _)
RrtLoop(tree, treeEdges, i, goal, obstacles, draws) ==
  IF i > maxIterations
  THEN [path |-> <<>>, tree |-> treeEdges, nodesExplored |-> Len(tree)]
  ELSE
    LET sample == Sample(draws[i], goal)
        nearestIdx == NearestIdx(tree, sample)
        nearest == tree[nearestIdx].point
        newPoint == Steer(nearest, sample)
    IN IF ~hasLineOfSight(nearest, newPoint, obstacles)
       THEN RrtLoop(tree, treeEdges, i + 1, goal, obstacles, draws)
       ELSE IF newPoint.x < 0 \/ newPoint.x > W \/ newPoint.y < 0 \/ newPoint.y > H
       THEN RrtLoop(tree, treeEdges, i + 1, goal, obstacles, draws)
       ELSE
         LET tree2 == Append(tree, [point |-> newPoint, parent |-> nearestIdx])
             edges2 == Append(treeEdges, [from |-> nearest, to |-> newPoint])
         IN IF HypotLess(newPoint.x - goal.x, newPoint.y - goal.y, stepSize * FP)
            THEN [path |-> RrtBranch(tree2, Len(tree2), <<goal, newPoint>>),
                  tree |-> edges2, nodesExplored |-> Len(tree2)]
            ELSE RrtLoop(tree2, edges2, i + 1, goal, obstacles, draws)

\* nodesExplored counting iterations instead of tree nodes: the variant
\* that C9 must tell from the program.
rrtCountingIterations(start, goal, obstacles, draws) ==
  [RrtLoop(<<[point |-> start, parent |-> 0]>>, <<>>, 1, goal, obstacles, draws)
     EXCEPT !.nodesExplored = maxIterations]

rrt(start, goal, obstacles, draws) ==
  RrtLoop(<<[point |-> start, parent |-> 0]>>, <<>>, 1, goal, obstacles, draws)

(* ---------------- field planner ---------------- *)
\* Clearance below which the fixed-point repulsion saturates (units).
RepFloor == 15

\* kRep * (1/d - 1/influenceRadius) / d^2 for a clearance of D units, as a
\* force in units: 6250 * (8000 - D) * 1000 / D^3.
RepMagnitude(D) ==
  LET Dc == Max2(D, RepFloor)
      t1 == (6250 * (80 * FP - Dc)) \div Dc
  IN (((t1 * 100) \div Dc) * 10) \div Dc

\* The repulsive force of one obstacle on the drone.
RepForce(drone, obs) ==
  LET cx == obs.x + obs.width \div 2
      cy == obs.y + obs.height \div 2
      hyp == Hypot(drone.x - cx, drone.y - cy)
      d == hyp - Max2(obs.width, obs.height) \div 2 - DRONE_RADIUS * FP
  IN IF d < 80 * FP /\ d > 0
     THEN LET magnitude == RepMagnitude(d)
          IN Pt(RDiv(magnitude * RDiv((drone.x - cx) * FP, hyp), FP),
                RDiv(magnitude * RDiv((drone.y - cy) * FP, hyp), FP))
     ELSE Pt(0, 0)

RECURSIVE SumRep(_, _, _)
SumRep(drone, obstacles, k) ==
  IF k > Len(obstacles) THEN Pt(0, 0)
  ELSE LET f == RepForce(drone, obstacles[k])
           r == SumRep(drone, obstacles, k + 1)
       IN Pt(f.x + r.x, f.y + r.y)

\* Attractive unit pull (kAttr = 1) plus the repulsion of every obstacle.
apfNavigate(drone, goal, obstacles) ==
  LET dGoal == Hypot(goal.x - drone.x, goal.y - drone.y)
      rep == SumRep(drone, obstacles, 1)
  IN Pt(RDiv((goal.x - drone.x) * FP, Max2(dGoal, FP)) + rep.x,
        RDiv((goal.y - drone.y) * FP, Max2(dGoal, FP)) + rep.y)

\* The sampled potential is drawn only; it is a function of the goal and of
\* the obstacles at the time of the click, which stand for it.
computePotentialField(goal, obstacles) == [goal |-> goal, obstacles |-> obstacles]

(* ---------------- range sensor ---------------- *)
\* The directions of the sweep as 5 * (cos, sin), in the order of the angle.
\* The program sweeps 36 rays turned by the heading; the model sweeps these
\* twelve fixed directions, so a sweep minimum here is the minimum over them.
LidarDirs ==
  << <<5, 0>>, <<4, 3>>, <<3, 4>>, <<0, 5>>, <<-3, 4>>, <<-4, 3>>,
     <<-5, 0>>, <<-4, -3>>, <<-3, -4>>, <<0, -5>>, <<3, -4>>, <<4, -3>> >>
LIDAR_RAYS == Len(LidarDirs)

RayPoint(drone, dir, d) == Pt(drone.x + dir[1] * d * (FP \div 5), drone.y + dir[2] * d * (FP \div 5))

\* A ray that is stopped only DRONE_RADIUS beyond the canvas: the variant
\* that C19 must tell from the program.
RayStopsLate(drone, dir, d, obstacles) ==
  LET p == RayPoint(drone, dir, d)
      R == DRONE_RADIUS * FP
  IN \/ p.x < -R \/ p.x > W + R \/ p.y < -R \/ p.y > H + R
     \/ \E k \in 1..Len(obstacles) : InsideInflated(p.x, p.y, obstacles[k], 0)

\* The ray has left the canvas or entered an obstacle at distance d.
RayStops(drone, dir, d, obstacles) ==
  LET p == RayPoint(drone, dir, d)
  IN \/ p.x < 0 \/ p.x > W \/ p.y < 0 \/ p.y > H
     \/ \E k \in 1..Len(obstacles) : InsideInflated(p.x, p.y, obstacles[k], 0)

\* The march for (d = 5; d < LIDAR_RANGE; d += 3): the first distance at
\* which the ray leaves the canvas or enters an obstacle, else LIDAR_RANGE.
RECURSIVE March(_, _, _, _)
March(drone, dir, d, obstacles) ==
  IF d >= LIDAR_RANGE THEN LIDAR_RANGE
  ELSE IF RayStops(drone, dir, d, obstacles) THEN d
       ELSE March(drone, dir, d + 3, obstacles)

CastRay(drone, i, obstacles) ==
  LET dir == LidarDirs[i]
      d == March(drone, dir, 5, obstacles)
  IN IF d >= LIDAR_RANGE
     THEN [angle |-> i, distance |-> LIDAR_RANGE, hit |-> FALSE, hitPoint |-> Null]
     ELSE [angle |-> i, distance |-> d, hit |-> TRUE, hitPoint |-> RayPoint(drone, dir, d)]

simulateLidar(drone, obstacles) == [i \in 1..LIDAR_RAYS |-> CastRay(drone, i, obstacles)]

\* state.lidarData.reduce(min, LIDAR_RANGE)
closestObstacle(lidar) ==
  LET ds == {lidar[i].distance : i \in 1..Len(lidar)} \cup {LIDAR_RANGE}
  IN CHOOSE m \in ds : \A n \in ds : m <= n

(* ---------------- obstacle field ---------------- *)
Static(x, y, w, h) ==
  [x |-> x * FP, y |-> y * FP, width |-> w * FP, height |-> h * FP, type |-> "static", vx |-> 0, vy |-> 0]
Dynamic(x, y, vx, vy) ==
  [x |-> x * FP, y |-> y * FP, width |-> 24 * FP, height |-> 24 * FP, type |-> "dynamic", vx |-> vx, vy |-> vy]

\* generateObstacles places by Math.random; its spacing (margin 60, gap 50)
\* does not fit the scaled canvas, so the model draws the field from these.
Layouts ==
  { << Static(105, 40, 30, 30), Dynamic(130, 5, -30, 0) >>,
    << Static(100, 70, 25, 12), Dynamic(110, 37, 10, 30) >> }

\* The draws (Math.random() - 0.5) * 0.5 of one frame, in units per frame.
Jitter == {-25, 20}
NoJitter == [x |-> 0, y |-> 0]

\* Boxes a and b, a moved to (ax, ay), closer than margin on both axes.
BoxesNear(ax, ay, a, b, margin) ==
  /\ ax < b.x + b.width + margin
  /\ ax + a.width + margin > b.x
  /\ ay < b.y + b.height + margin
  /\ ay + a.height + margin > b.y

collisionX(obs, obstacles) ==
  \E k \in 1..Len(obstacles) :
    /\ obstacles[k].type = "static"
    /\ BoxesNear(obs.x + obs.vx, obs.y, obs, obstacles[k], 8 * FP)

collisionY(obs, obstacles) ==
  \E k \in 1..Len(obstacles) :
    /\ obstacles[k].type = "static"
    /\ BoxesNear(obs.x, obs.y + obs.vy, obs, obstacles[k], 8 * FP)

\* Velocity of obstacle i after steering away from the dynamic obstacles k..n
\* that its predicted box comes within 15 of.
RECURSIVE SteerAway(_, _, _, _, _)
SteerAway(obs, i, v, obstacles, k) ==
  IF k > Len(obstacles) THEN v
  ELSE
    LET other == obstacles[k]
        dx == (obs.x + obs.width \div 2) - (other.x + other.width \div 2)
        dy == (obs.y + obs.height \div 2) - (other.y + other.height \div 2)
        h == Hypot(dx, dy)
        dist == IF h = 0 THEN FP ELSE h
        v2 == IF k # i /\ other.type = "dynamic"
                 /\ BoxesNear(obs.x + obs.vx, obs.y + obs.vy, obs, other, 15 * FP)
              THEN Pt(v.x + RDiv(dx * 30, dist), v.y + RDiv(dy * 30, dist))
              ELSE v
    IN SteerAway(obs, i, v2, obstacles, k + 1)

\* Bounce off a static obstacle: the component flips and the other one takes
\* a draw of Math.random.
FlipX(c, v, jit) == IF c THEN Pt(-v.x, v.y + jit.y) ELSE v
FlipY(c, v, jit) == IF c THEN Pt(v.x + jit.x, -v.y) ELSE v

\* Bounce off the walls.
WallBounce(obs, v) ==
  Pt(IF obs.x <= 0 \/ obs.x + obs.width >= W THEN -v.x ELSE v.x,
     IF obs.y <= 0 \/ obs.y + obs.height >= H THEN -v.y ELSE v.y)

\* v * num / den
Scale(v, num, den) == Pt(RDiv(v.x * num, den), RDiv(v.y * num, den))

\* The minimum speed without the maximum: the variant that C13 must tell from
\* the program.
SpeedBandUncapped(v) ==
  LET sq == v.x * v.x + v.y * v.y
      currentSpeed == ISqrt(sq)
  IN IF sq < 25 * 25
     THEN IF currentSpeed = 0 THEN Scale(v, 25, 10) ELSE Scale(v, 25, currentSpeed)
     ELSE v

\* maxSpeed 0.8 and minSpeed 0.25, both tested on the speed before either;
\* a speed of 0 counts as 0.1.
SpeedBand(v) ==
  LET sq == v.x * v.x + v.y * v.y
      currentSpeed == ISqrt(sq)
  IN IF sq > 80 * 80 THEN Scale(v, 80, currentSpeed)
     ELSE IF sq < 25 * 25
          THEN IF currentSpeed = 0 THEN Scale(v, 25, 10) ELSE Scale(v, 25, currentSpeed)
          ELSE v

\* Apply movement and clamp to the canvas.
Advance(obs, v) ==
  [obs EXCEPT !.vx = v.x, !.vy = v.y,
              !.x = Max2(0, Min2(W - obs.width, obs.x + v.x)),
              !.y = Max2(0, Min2(H - obs.height, obs.y + v.y))]

\* One dynamic obstacle, one frame.
MoveObstacle(obs, i, obstacles, jit) ==
  Advance(obs,
    SpeedBand(
      WallBounce(obs,
        FlipY(collisionY(obs, obstacles),
          FlipX(collisionX(obs, obstacles),
            SteerAway(obs, i, Pt(obs.vx, obs.vy), obstacles, 1), jit), jit))))

\* state.obstacles.forEach: in place, so a later obstacle sees the earlier
\* ones already moved.  jit[i] holds the draws of obstacle i.
RECURSIVE MoveObstacles(_, _, _)
MoveObstacles(obstacles, i, jit) ==
  IF i > Len(obstacles) THEN obstacles
  ELSE IF obstacles[i].type = "dynamic"
       THEN MoveObstacles([obstacles EXCEPT ![i] = MoveObstacle(obstacles[i], i, obstacles, jit[i])], i + 1, jit)
       ELSE MoveObstacles(obstacles, i + 1, jit)

\* Obstacle i is dynamic and bounces off a static one in the coming frame, so
\* that frame draws from Math.random for it.  Statics do not move, hence the
\* test on the field before the frame.
Bounces(obstacles, i) ==
  /\ obstacles[i].type = "dynamic"
  /\ collisionX(obstacles[i], obstacles) \/ collisionY(obstacles[i], obstacles)

\* The draws of one frame: a pair of draws for every obstacle that bounces.
JitterDraws(obstacles) ==
  { jit \in [1..Len(obstacles) -> [x : Jitter, y : Jitter] \cup {NoJitter}] :
      \A i \in 1..Len(obstacles) : (jit[i] = NoJitter) <=> ~Bounces(obstacles, i) }

(* ---------------- state ---------------- *)
VARIABLES
  drone,             \* state.drone: x, y, vx, vy, battery, state
  target,            \* state.target: a point or Null
  path,              \* state.path
  currentPathIndex,  \* state.currentPathIndex, 0-based
  obstacles,         \* state.obstacles
  lidarData,         \* state.lidarData
  potentialField,    \* state.potentialField
  rrtTree,           \* state.rrtTree
  stats,             \* the published statistics (React state)
  algorithmMode,     \* "astar", "rrt" or "apf"
  speed,             \* the speed multiplier, in tenths
  lastOp,            \* the handler that ran last, with what it started from
  ticks,             \* frames run so far
  events,            \* user inputs so far
  pending,           \* the frame requests the browser holds: handle and effect run
  animId,            \* animId of the live effect run: the handle it got last
  rafSeq,            \* the last handle requestAnimationFrame gave out
  listeners,         \* the effect runs whose listeners are on the canvas
  instance,          \* the number of the live effect run
  mounted            \* the component is mounted

\* The variables of the effect's life cycle.
life == <<pending, animId, rafSeq, listeners, instance, mounted>>

vars == <<drone, target, path, currentPathIndex, obstacles, lidarData, potentialField,
          rrtTree, stats, algorithmMode, speed, lastOp, ticks, events,
          pending, animId, rafSeq, listeners, instance, mounted>>

Modes == {"astar", "rrt", "apf"}
\* The slider runs from 0.2 to 1.5 in steps of 0.1; the model uses the
\* initial value and the maximum.
Speeds == {6, 15}

DronePos == Pt(drone.x, drone.y)

\* The drone as the effect creates it.
NewDrone ==
  [x |-> startX * FP, y |-> H \div 2, vx |-> 0, vy |-> 0, battery |-> 100 * BFP, state |-> "idle"]

(* ---------------- goal request ---------------- *)
ClickHits(click, obs) == InsideInflated(click.x, click.y, obs, clickMargin * FP)

\* The four offsets perpendicular to the sides of obs, in the order tried.
Candidates(obs, click) ==
  << Pt(obs.x - clickMargin * FP - 5 * FP, click.y),
     Pt(obs.x + obs.width + clickMargin * FP + 5 * FP, click.y),
     Pt(click.x, obs.y - clickMargin * FP - 5 * FP),
     Pt(click.x, obs.y + obs.height + clickMargin * FP + 5 * FP) >>

\* A candidate tested against the canvas inset only: the variant that C6
\* must tell from the program.
CandidateInCanvas(c, obs_) ==
  ~(c.x < 10 * FP \/ c.x > W - 10 * FP \/ c.y < 10 * FP \/ c.y > H - 10 * FP)

CandidateValid(c, obs_) ==
  /\ ~(c.x < 10 * FP \/ c.x > W - 10 * FP \/ c.y < 10 * FP \/ c.y > H - 10 * FP)
  /\ \A k \in 1..Len(obs_) : ~ClickHits(c, obs_[k])

\* The closest valid candidate, the first of them on a tie, or Null.
BestCandidate(cands, click, obs_) ==
  LET valid == {i \in 1..Len(cands) : CandidateValid(cands[i], obs_)}
  IN IF valid = {} THEN Null
     ELSE cands[CHOOSE i \in valid :
                  /\ \A j \in valid : Dist2(cands[i], click) <= Dist2(cands[j], click)
                  /\ \A j \in valid : j < i => Dist2(cands[j], click) > Dist2(cands[i], click)]

\* A click with no valid candidate taken as it is: the variant that C5 must
\* tell from the program.
EffectiveGoalNoAbort(click, obs_) ==
  LET hits == {k \in 1..Len(obs_) : ClickHits(click, obs_[k])}
  IN IF hits = {} THEN click
     ELSE LET first == CHOOSE k \in hits : \A j \in hits : k <= j
              best == BestCandidate(Candidates(obs_[first], click), click, obs_)
          IN IF best = Null THEN click ELSE best

\* The goal a click stands for: the click itself when it is clear of every
\* obstacle, else the best candidate around the first obstacle it hits, else
\* Null (the click is ignored).
EffectiveGoal(click, obs_) ==
  LET hits == {k \in 1..Len(obs_) : ClickHits(click, obs_[k])}
  IN IF hits = {} THEN click
     ELSE LET first == CHOOSE k \in hits : \A j \in hits : k <= j
          IN BestCandidate(Candidates(obs_[first], click), click, obs_)

\* The astar branch without the direct path: the variant that C10 must tell
\* from the program.
AstarPlanNoFallback(start, goal, obs_) ==
  LET result == astar(start, goal, obs_)
  IN [path |-> result.path, tree |-> <<>>, nodesExplored |-> result.nodesExplored,
      pathLength |-> Len(result.path)]

\* A grid planner whose count of explored nodes runs on from the count the
\* statistics hold: the variant that C17 must tell from the program.
AstarPlanCountingOn(start, goal, obs_) ==
  LET result == astar(start, goal, obs_)
      p == IF Len(result.path) = 0 /\ hasLineOfSight(start, goal, obs_)
           THEN <<start, goal>>
           ELSE result.path
  IN [path |-> p, tree |-> <<>>, nodesExplored |-> stats.nodesExplored + result.nodesExplored,
      pathLength |-> Len(p)]

\* The astar branch: the planner's path, or the direct path when the planner
\* fails and the goal is in line of sight.
AstarPlan(start, goal, obs_) ==
  LET result == astar(start, goal, obs_)
      p == IF Len(result.path) = 0 /\ hasLineOfSight(start, goal, obs_)
           THEN <<start, goal>>
           ELSE result.path
  IN [path |-> p, tree |-> <<>>, nodesExplored |-> result.nodesExplored, pathLength |-> Len(p)]

RrtPlan(start, goal, obs_, draws) ==
  LET result == rrt(start, goal, obs_, draws)
  IN [path |-> result.path, tree |-> result.tree, nodesExplored |-> result.nodesExplored,
      pathLength |-> Len(result.path)]

\* state.drone.state after planning.
StateAfterPlan(p) == IF Len(p) > 0 THEN "navigating" ELSE "idle"

\* The goal kept when the plan fails: the variant that C4 must tell from the
\* program.
TargetKept(p, goal, mode) == goal

\* The goal cleared after a failure of the grid planner only: the variant
\* that C11 must tell from the program.
TargetClearedByGridOnly(p, goal, mode) == IF Len(p) = 0 /\ mode = "astar" THEN Null ELSE goal

\* state.target after planning.
TargetAfterPlan(p, goal, mode) == IF Len(p) = 0 /\ mode # "apf" THEN Null ELSE goal

\* The plan a request stores: path, tree and the planner's statistics.
PlanFor(mode, start, goal, obs_, draws) ==
  IF mode = "astar" THEN AstarPlan(start, goal, obs_) ELSE RrtPlan(start, goal, obs_, draws)

\* A click at pos comes straight after an accepted click at the same point.
Repeats(pos) == lastOp.op = "click" /\ lastOp.accepted /\ lastOp.pos = pos

\* The click handler, for a click at pos and the draws the tree planner takes.
onClick(pos, draws) ==
  \E goal \in {EffectiveGoal(pos, obstacles)} :
     IF goal = Null
     THEN /\ UNCHANGED <<drone, target, path, currentPathIndex, potentialField, rrtTree, stats>>
          /\ lastOp' = [op |-> "click", pos |-> pos, accepted |-> FALSE, goal |-> Null,
                        again |-> Repeats(pos)]
     ELSE
       /\ lastOp' = [op |-> "click", pos |-> pos, accepted |-> TRUE, goal |-> goal,
                     again |-> Repeats(pos)]
       /\ currentPathIndex' = 0
       /\ IF algorithmMode = "apf"
          THEN /\ path' = <<goal>>
               /\ potentialField' = computePotentialField(goal, obstacles)
               /\ UNCHANGED <<rrtTree, stats>>
          ELSE \E plan \in {PlanFor(algorithmMode, DronePos, goal, obstacles, draws)} :
                  /\ path' = plan.path
                  /\ rrtTree' = plan.tree
                  /\ stats' = [stats EXCEPT !.nodesExplored = plan.nodesExplored,
                                            !.pathLength = plan.pathLength]
                  /\ UNCHANGED potentialField
       /\ drone' = [drone EXCEPT !.state = StateAfterPlan(path')]
       /\ target' = TargetAfterPlan(path', goal, algorithmMode)

(* ---------------- the frame ---------------- *)
\* Avoidance entered only within DRONE_RADIUS: the variant that C2 must tell
\* from the program.
EnterAvoidingAtRadius(st, closest) ==
  IF closest < DRONE_RADIUS /\ st = "navigating" THEN "avoiding" ELSE st

\* navigating -> avoiding when the sweep sees something closer than
\* SAFE_DISTANCE.
EnterAvoiding(st, closest) ==
  IF closest < SAFE_DISTANCE /\ st = "navigating" THEN "avoiding" ELSE st

\* Avoidance left only beyond 1.5 * SAFE_DISTANCE: the variant that C3 must
\* tell from the program.
LeaveAvoidingLate(st, closest) ==
  IF st = "avoiding" /\ closest * 10 > SAFE_DISTANCE * 15 THEN "navigating" ELSE st

\* Avoidance left as soon as the sweep is clear beyond SAFE_DISTANCE, without
\* the band up to 1.2 * SAFE_DISTANCE: the variant that C25 must tell from the
\* program.
LeaveAvoidingAtOnce(st, closest) ==
  IF st = "avoiding" /\ closest > SAFE_DISTANCE THEN "navigating" ELSE st

\* avoiding -> navigating when the sweep is clear beyond 1.2 * SAFE_DISTANCE.
LeaveAvoiding(st, closest) ==
  IF st = "avoiding" /\ closest * 10 > SAFE_DISTANCE * 12 THEN "navigating" ELSE st

\* Arrival tested against the waypoint radius instead of the arrival
\* threshold: the variant that C1 must tell from the program.
ArrivedAtWaypoint(d, goal) == HypotLess(goal.x - d.x, goal.y - d.y, waypointRadius * FP)

\* The goal counts as reached.
Arrived(d, goal) == HypotLess(goal.x - d.x, goal.y - d.y, arrivalThreshold * FP)

\* The cursor after the waypoint test.
AdvanceCursor(d, p, idx) ==
  IF HypotLess(p[idx + 1].x - d.x, p[idx + 1].y - d.y, waypointRadius * FP) /\ idx < Len(p) - 1
  THEN idx + 1 ELSE idx

\* The pull of the planner on the velocity: the field force in apf mode,
\* the current waypoint otherwise.
Pull(d, mode, goal, p, idx, obs_, sp) ==
  IF mode = "apf"
  THEN IF goal # Null
       THEN LET force == apfNavigate(d, goal, obs_)
            IN Pt(RDiv(force.x * 2 * sp, 1000), RDiv(force.y * 2 * sp, 1000))
       ELSE Pt(0, 0)
  ELSE IF Len(p) > 0 /\ idx < Len(p)
       THEN Pt(RDiv((p[idx + 1].x - d.x) * 3 * sp, 10000), RDiv((p[idx + 1].y - d.y) * 3 * sp, 10000))
       ELSE Pt(0, 0)

\* The push away from every ray shorter than SAFE_DISTANCE:
\* cos * (SAFE_DISTANCE - distance) / SAFE_DISTANCE * 0.5 per ray.
RECURSIVE AvoidPush(_, _)
AvoidPush(lidar, i) ==
  IF i > Len(lidar) THEN Pt(0, 0)
  ELSE LET ray == lidar[i]
           rest == AvoidPush(lidar, i + 1)
       IN IF ray.distance < SAFE_DISTANCE
          THEN Pt(rest.x - RDiv(LidarDirs[ray.angle][1] * (SAFE_DISTANCE - ray.distance) * FP, 10 * SAFE_DISTANCE),
                  rest.y - RDiv(LidarDirs[ray.angle][2] * (SAFE_DISTANCE - ray.distance) * FP, 10 * SAFE_DISTANCE))
          ELSE rest

\* Damping, rounded toward zero so that a coasting drone comes to rest.
Damp(v) == Pt(TDiv(v.x * 95, 100), TDiv(v.y * 95, 100))

\* The speed limit.
LimitTo(v, maxSpeed) ==
  LET sq == v.x * v.x + v.y * v.y
  IN IF sq > maxSpeed * maxSpeed THEN Scale(v, maxSpeed, ISqrt(sq)) ELSE v

\* Battery drain 0.002 * (1 + currentSpeed), currentSpeed the speed of v.
Drain(battery, v) ==
  Max2(0, battery - ((2 * BFP) \div 1000 + RDiv(2 * ISqrt(v.x * v.x + v.y * v.y) * BFP, 1000 * FP)))

\* Integration without the boundary clamp: the variant that C26 must tell
\* from the program.
MoveUnclamped(d, v, battery) ==
  [x |-> d.x + v.x, y |-> d.y + v.y,
   vx |-> v.x, vy |-> v.y, battery |-> battery, state |-> d.state]

\* Integration and the boundary clamp.
Move(d, v, battery) ==
  [x |-> Max2(DRONE_RADIUS * FP, Min2(W - DRONE_RADIUS * FP, d.x + v.x)),
   y |-> Max2(DRONE_RADIUS * FP, Min2(H - DRONE_RADIUS * FP, d.y + v.y)),
   vx |-> v.x, vy |-> v.y, battery |-> battery, state |-> d.state]

\* The physics update of drone d with velocity v at speed multiplier sp; the
\* drain uses the speed before the limit.
Physics(d, v, sp) == Move(d, LimitTo(Damp(v), 2 * sp * (FP \div 10)), Drain(d.battery, Damp(v)))

\* One animation frame, for the draws jit of the obstacle bounces, one pair
\* of draws for each obstacle.
animate(jit) ==
  \E obs2 \in {MoveObstacles(obstacles, 1, jit)} :
  \E lidar \in {simulateLidar(drone, obs2)} :
  \E closest \in {closestObstacle(lidar)} :
  \E st1 \in {EnterAvoiding(drone.state, closest)} :
  \E nav \in {st1 \in {"navigating", "avoiding"}} :
  \E pull \in {IF nav THEN Pull(drone, algorithmMode, target, path, currentPathIndex, obs2, speed)
                ELSE Pt(0, 0)} :
  \E push \in {IF st1 = "avoiding" THEN AvoidPush(lidar, 1) ELSE Pt(0, 0)} :
  \E arrived \in {nav /\ target # Null /\ Arrived(drone, target)} :
  \E st3 \in {IF arrived THEN "idle" ELSE LeaveAvoiding(st1, closest)} :
  \E moved \in {Physics([drone EXCEPT !.state = st3],
                         Pt(drone.vx + pull.x + push.x, drone.vy + pull.y + push.y), speed)} :
     /\ obstacles' = obs2
     /\ lidarData' = lidar
     /\ currentPathIndex' =
          IF nav /\ algorithmMode # "apf" /\ Len(path) > 0 /\ currentPathIndex < Len(path)
          THEN AdvanceCursor(drone, path, currentPathIndex)
          ELSE currentPathIndex
     /\ target' = IF arrived THEN Null ELSE target
     /\ path' = IF arrived THEN <<>> ELSE path
     /\ drone' = moved
     /\ stats' = [stats EXCEPT
                    !.distanceToGoal = IF nav /\ target # Null
                                       THEN Hypot(target.x - drone.x, target.y - drone.y) ELSE @,
                    !.battery = moved.battery,
                    !.state = moved.state]
     /\ lastOp' = [op |-> "tick", state |-> drone.state, pos |-> DronePos, goal |-> target]
     /\ UNCHANGED <<potentialField, rrtTree, algorithmMode, speed>>

(* ---------------- configuration and reset ---------------- *)
\* The effect body: it runs at mount and again whenever a dependency
\* (speed, algorithm, obstacle counts, view toggles) changes.
effect(layout) ==
  /\ drone' = NewDrone
  /\ obstacles' = layout
  /\ path' = <<>>
  /\ currentPathIndex' = 0
  /\ UNCHANGED <<target, lidarData, potentialField, rrtTree, stats>>

\* The reset without the clearing of the goal: the variant that C14 must tell
\* from the program.
resetObstaclesKeepingGoal(layout) ==
  /\ obstacles' = layout
  /\ path' = <<>>
  /\ rrtTree' = <<>>
  /\ drone' = [drone EXCEPT !.state = "idle", !.x = startX * FP, !.y = H \div 2, !.vx = 0, !.vy = 0]
  /\ UNCHANGED <<target, currentPathIndex, lidarData, potentialField, stats, algorithmMode, speed>>

\* The reset button's handler.
resetObstacles(layout) ==
  /\ obstacles' = layout
  /\ path' = <<>>
  /\ target' = Null
  /\ rrtTree' = <<>>
  /\ drone' = [drone EXCEPT !.state = "idle", !.x = startX * FP, !.y = H \div 2, !.vx = 0, !.vy = 0]
  /\ UNCHANGED <<currentPathIndex, lidarData, potentialField, stats, algorithmMode, speed>>

(* ---------------- life cycle of the effect ---------------- *)
\* A cancelAnimationFrame that cancels nothing: the variant that C16 must tell
\* from the program.
NotCancelled(p, h) == p

\* cancelAnimationFrame(h): the request with handle h is dropped.
Cancelled(p, h) == {f \in p : f.id # h}

\* The effect's cleanup followed by its next run: the frame request animId
\* names is cancelled and the listeners are removed, then the new run adds
\* its listeners and requests its first frame.
rerun ==
  /\ pending' = Cancelled(pending, animId) \cup {[id |-> rafSeq + 1, inst |-> instance + 1]}
  /\ animId' = rafSeq + 1
  /\ rafSeq' = rafSeq + 1
  /\ listeners' = (listeners \ {instance}) \cup {instance + 1}
  /\ instance' = instance + 1
  /\ UNCHANGED mounted

\* The effect's cleanup at unmount.
cleanup ==
  /\ pending' = Cancelled(pending, animId)
  /\ listeners' = listeners \ {instance}
  /\ UNCHANGED <<animId, rafSeq, instance>>

\* The life cycle after the first run of the effect.
FirstRun ==
  /\ pending = {[id |-> 1, inst |-> 1]}
  /\ animId = 1
  /\ rafSeq = 1
  /\ listeners = {1}
  /\ instance = 1
  /\ mounted = TRUE

(* ---------------- specification ---------------- *)
\* Clicks of the run.
Clicks ==
  { Pt(66 * FP, 60 * FP), Pt(120 * FP, 55 * FP), Pt(140 * FP, 5 * FP),
    Pt(155 * FP, 55 * FP), Pt(150 * FP, 100 * FP) }

\* One draw of the tree planner's sampler; the sequences of maxIterations
\* draws one request takes.
Draws ==
  { [bias |-> TRUE, p |-> Pt(0, 0)],
    [bias |-> FALSE, p |-> Pt(150 * FP, 26 * FP)] }
DrawSeqs == [1..maxIterations -> Draws]
NoDraws == [i \in 1..maxIterations |-> [bias |-> TRUE, p |-> Pt(0, 0)]]

InitStats ==
  [pathLength |-> 0, nodesExplored |-> 0, distanceToGoal |-> 0, battery |-> 100 * BFP, state |-> "idle"]

Init ==
  /\ drone = NewDrone
  /\ obstacles \in Layouts
  /\ target = Null
  /\ path = <<>>
  /\ currentPathIndex = 0
  /\ lidarData = <<>>
  /\ potentialField = <<>>
  /\ rrtTree = <<>>
  /\ stats = InitStats
  /\ algorithmMode = "astar"
  /\ speed = 6
  /\ lastOp = [op |-> "mount"]
  /\ ticks = 0
  /\ events = 0
  /\ FirstRun

\* The browser calls a requested frame: animate runs and, at its end,
\* requests the next frame and keeps the handle in the animId of its run.
Frame ==
  /\ ticks' = ticks + 1
  /\ UNCHANGED events
  /\ \E f \in pending :
       /\ pending' = (pending \ {f}) \cup {[id |-> rafSeq + 1, inst |-> f.inst]}
       /\ animId' = IF f.inst = instance THEN rafSeq + 1 ELSE animId
  /\ rafSeq' = rafSeq + 1
  /\ UNCHANGED <<listeners, instance, mounted>>
  /\ \E jit \in JitterDraws(obstacles) : animate(jit)

Input ==
  /\ events' = events + 1
  /\ UNCHANGED ticks

\* A click on the canvas, handled by a click listener that is registered.
Request(pos) ==
  /\ Input
  /\ listeners # {}
  /\ UNCHANGED life
  /\ \E draws \in (IF algorithmMode = "rrt" THEN DrawSeqs ELSE {NoDraws}) : onClick(pos, draws)
  /\ UNCHANGED <<obstacles, lidarData, algorithmMode, speed>>

\* An algorithm button: the effect depends on algorithmMode and runs again.
SetAlgorithm(m) ==
  /\ Input
  /\ mounted
  /\ m # algorithmMode
  /\ algorithmMode' = m
  /\ rerun
  /\ \E layout \in Layouts : effect(layout)
  /\ lastOp' = [op |-> "algorithm"]
  /\ UNCHANGED speed

\* The speed slider: the effect depends on speed and runs again.
SetSpeed(s) ==
  /\ Input
  /\ mounted
  /\ s # speed
  /\ speed' = s
  /\ rerun
  /\ \E layout \in Layouts : effect(layout)
  /\ lastOp' = [op |-> "speed"]
  /\ UNCHANGED algorithmMode

\* The reset button.
Reset ==
  /\ Input
  /\ mounted
  /\ UNCHANGED life
  /\ \E layout \in Layouts : resetObstacles(layout)
  /\ lastOp' = [op |-> "reset"]

\* The view is closed: React runs the cleanup of the live effect run.
Unmount ==
  /\ mounted
  /\ mounted' = FALSE
  /\ cleanup
  /\ lastOp' = [op |-> "unmount"]
  /\ UNCHANGED <<drone, target, path, currentPathIndex, obstacles, lidarData, potentialField,
                 rrtTree, stats, algorithmMode, speed, ticks, events>>

Tick == ticks < MaxTicks /\ Frame
Click == events < MaxEvents /\ \E pos \in Clicks : Request(pos)
ChangeAlgorithm == events < MaxEvents /\ \E m \in Modes : SetAlgorithm(m)
ChangeSpeed == events < MaxEvents /\ \E s \in Speeds : SetSpeed(s)
ResetSimulation == events < MaxEvents /\ Reset
Teardown == Unmount

Next == Tick \/ Click \/ ChangeAlgorithm \/ ChangeSpeed \/ ResetSimulation \/ Teardown

Spec == Init /\ [][Next]_vars

\* A long flight: the frames run on, and the user clicks only every
\* InputPeriod frames, on one of a few points.
FlightClicks == {Pt(14 * FP, 55 * FP), Pt(67 * FP, 55 * FP), Pt(150 * FP, 100 * FP)}

FlightTick == ticks < FlightTicks /\ Frame
FlightClick ==
  /\ events < MaxRequests
  /\ ticks % InputPeriod = 0
  /\ \E pos \in FlightClicks : Request(pos)

FlightNext == FlightTick \/ FlightClick

\* The flight starts with the algorithm already chosen: choosing it before
\* the first frame runs the effect again, which leaves the state of Init
\* with the chosen mode.
InitFlight ==
  /\ drone = NewDrone
  /\ obstacles \in Layouts
  /\ target = Null
  /\ path = <<>>
  /\ currentPathIndex = 0
  /\ lidarData = <<>>
  /\ potentialField = <<>>
  /\ rrtTree = <<>>
  /\ stats = InitStats
  /\ algorithmMode \in Modes
  /\ speed = 6
  /\ lastOp = [op |-> "mount"]
  /\ ticks = 0
  /\ events = 0
  /\ FirstRun

SpecFlight == InitFlight /\ [][FlightNext]_vars

\* The same flight with the speed slider at its maximum, 1.5: the drone
\* reaches its goal fast enough to coast on to the canvas wall.
InitDash ==
  /\ drone = NewDrone
  /\ obstacles \in Layouts
  /\ target = Null
  /\ path = <<>>
  /\ currentPathIndex = 0
  /\ lidarData = <<>>
  /\ potentialField = <<>>
  /\ rrtTree = <<>>
  /\ stats = InitStats
  /\ algorithmMode \in Modes
  /\ speed = 15
  /\ lastOp = [op |-> "mount"]
  /\ ticks = 0
  /\ events = 0
  /\ FirstRun

SpecDash == InitDash /\ [][FlightNext]_vars

\* The planners on their own: one request, from a drone that has come to
\* rest anywhere (beside a building, under a UAV that drifted over it), in
\* either planning mode.
PlannerStarts ==
  { Pt(startX * FP, H \div 2), Pt(75 * FP, 26 * FP), Pt(92 * FP, 58 * FP), Pt(140 * FP, 95 * FP),
    Pt(20 * FP, 95 * FP), Pt(120 * FP, 20 * FP) }
PlannerClicks ==
  { Pt(150 * FP, 100 * FP), Pt(20 * FP, 20 * FP), Pt(89 * FP, 40 * FP),
    Pt(66 * FP, 60 * FP), Pt(155 * FP, 55 * FP) }

InitPlanner ==
  /\ \E s \in PlannerStarts : drone = [NewDrone EXCEPT !.x = s.x, !.y = s.y]
  /\ obstacles \in Layouts
  /\ target = Null
  /\ path = <<>>
  /\ currentPathIndex = 0
  /\ lidarData = <<>>
  /\ potentialField = <<>>
  /\ rrtTree = <<>>
  /\ stats = InitStats
  /\ algorithmMode \in {"astar", "rrt"}
  /\ speed = 6
  /\ lastOp = [op |-> "mount"]
  /\ ticks = 0
  /\ events = 0
  /\ FirstRun

Plan == events = 0 /\ \E pos \in PlannerClicks : Request(pos)

SpecPlanner == InitPlanner /\ [][Plan]_vars

\* The grid planner over a field without obstacles: one request, for a goal
\* anywhere on the canvas, its right and bottom edges included.
OpenClicks ==
  { Pt(x * FP, y * FP) : x \in {5, 40, 80, 120, 155, canvasWidth}, y \in {5, 55, 105, canvasHeight} }

InitOpenField ==
  /\ \E s \in PlannerStarts : drone = [NewDrone EXCEPT !.x = s.x, !.y = s.y]
  /\ obstacles = <<>>
  /\ target = Null
  /\ path = <<>>
  /\ currentPathIndex = 0
  /\ lidarData = <<>>
  /\ potentialField = <<>>
  /\ rrtTree = <<>>
  /\ stats = InitStats
  /\ algorithmMode = "astar"
  /\ speed = 6
  /\ lastOp = [op |-> "mount"]
  /\ ticks = 0
  /\ events = 0
  /\ FirstRun

PlanOpen == events = 0 /\ \E pos \in OpenClicks : Request(pos)

SpecOpenField == InitOpenField /\ [][PlanOpen]_vars

\* Navigation to the end: a drone whose battery has run flat and that the
\* reset button has put back at the start, over a field of buildings only
\* (the UAV slider at 0), with one of the path planners.  One goal is
\* requested (near a wall, inside the margin of a building, in the open) and
\* then the frames run on with no further input.
StaticOnly(layout) == SelectSeq(layout, LAMBDA o : o.type = "static")

NavFields == {StaticOnly(layout) : layout \in Layouts}

NavClicks ==
  { Pt(5 * FP, 55 * FP), Pt(80 * FP, 100 * FP), Pt(150 * FP, 100 * FP), Pt(110 * FP, 30 * FP) }

InitNav ==
  /\ drone = [NewDrone EXCEPT !.battery = 0]
  /\ obstacles \in NavFields
  /\ target = Null
  /\ path = <<>>
  /\ currentPathIndex = 0
  /\ lidarData = <<>>
  /\ potentialField = <<>>
  /\ rrtTree = <<>>
  /\ stats = [InitStats EXCEPT !.battery = 0]
  /\ algorithmMode \in {"astar", "rrt"}
  /\ speed = 6
  /\ lastOp = [op |-> "mount"]
  /\ ticks = 0
  /\ events = 0
  /\ FirstRun

NavClick == events = 0 /\ \E pos \in NavClicks : Request(pos)

\* The browser calls the frame that has been requested, and the frame
\* requests the next one.  Only the equality of frame handles matters, so
\* the two handles 1 and 2 are issued in turn.
Called ==
  /\ events = 1
  /\ \E f \in pending : pending' = {[id |-> 3 - f.id, inst |-> f.inst]}

\* A frame of the flight.  The frames are not counted: the flight runs on
\* for as long as frames are called.
Glide ==
  /\ Called
  /\ \E f \in pending : animId' = 3 - f.id
  /\ rafSeq' = 2
  /\ UNCHANGED <<ticks, events, listeners, instance, mounted>>
  /\ \E jit \in JitterDraws(obstacles) : animate(jit)

NavNext == NavClick \/ Glide

\* Every frame that has been requested is called in the end: the pending
\* request does not wait for ever.
SpecNav == InitNav /\ [][NavNext]_vars /\ WF_pending(Called)

\* The obstacle field on its own: the frames of an idle drone over fields
\* with two UAVs, as they stand once the UAVs have drifted to a wall, to
\* each other or to a building.  Velocities are within what generateObstacles
\* draws, (Math.random() - 0.5) * 0.6 per component; the last field has the
\* draws of 0.5, a UAV created at rest.
ObstacleFields ==
  { << Static(105, 40, 30, 30), Dynamic(1, 2, -30, -29), Dynamic(30, 8, -30, 10) >>,
    << Static(70, 40, 30, 30), Dynamic(110, 45, -30, 0), Dynamic(135, 85, 29, 29) >>,
    << Static(70, 40, 30, 30), Dynamic(110, 64, -29, 29), Dynamic(120, 16, 20, -30) >>,
    << Static(70, 40, 30, 30), Dynamic(20, 80, 0, 0), Dynamic(120, 16, 10, 0) >> }

InitObstacles ==
  /\ drone = NewDrone
  /\ obstacles \in ObstacleFields
  /\ target = Null
  /\ path = <<>>
  /\ currentPathIndex = 0
  /\ lidarData = <<>>
  /\ potentialField = <<>>
  /\ rrtTree = <<>>
  /\ stats = InitStats
  /\ algorithmMode = "astar"
  /\ speed = 6
  /\ lastOp = [op |-> "mount"]
  /\ ticks = 0
  /\ events = 0
  /\ FirstRun

Drift == ticks < DriftTicks /\ Frame

SpecObstacles == InitObstacles /\ [][Drift]_vars

\* The range sensor on its own: the frames of an idle drone that has come to
\* rest anywhere the boundary clamp lets it be, from DRONE_RADIUS off one
\* wall to DRONE_RADIUS off the other, over every field of the model.
SensePoses ==
  { Pt(x, y) : x \in {DRONE_RADIUS * FP, 2950, 4610, 6300, 8000, 9777, 11400, 13100, W - DRONE_RADIUS * FP},
               y \in {DRONE_RADIUS * FP, 2900, 4633, 6500, 8200, H - DRONE_RADIUS * FP} }

InitSense ==
  /\ \E s \in SensePoses : drone = [NewDrone EXCEPT !.x = s.x, !.y = s.y]
  /\ obstacles \in Layouts \cup ObstacleFields
  /\ target = Null
  /\ path = <<>>
  /\ currentPathIndex = 0
  /\ lidarData = <<>>
  /\ potentialField = <<>>
  /\ rrtTree = <<>>
  /\ stats = InitStats
  /\ algorithmMode = "astar"
  /\ speed = 6
  /\ lastOp = [op |-> "mount"]
  /\ ticks = 0
  /\ events = 0
  /\ FirstRun

Sense == ticks < SenseTicks /\ Frame

SpecSense == InitSense /\ [][Sense]_vars

\* The smoothing on its own: smoothPath applied to any raw path over a few
\* points, some pairs of which the obstacles hide from each other.
SmoothPoints ==
  { Pt(60 * FP, 55 * FP), Pt(80 * FP, 100 * FP), Pt(150 * FP, 100 * FP), Pt(155 * FP, 55 * FP) }

RawPaths == UNION {[1..n -> SmoothPoints] : n \in 0..MaxRaw}

InitSmooth ==
  /\ drone = NewDrone
  /\ obstacles \in Layouts
  /\ target = Null
  /\ path \in RawPaths
  /\ currentPathIndex = 0
  /\ lidarData = <<>>
  /\ potentialField = <<>>
  /\ rrtTree = <<>>
  /\ stats = InitStats
  /\ algorithmMode = "astar"
  /\ speed = 6
  /\ lastOp = [op |-> "mount"]
  /\ ticks = 0
  /\ events = 0
  /\ FirstRun

\* smoothPath applied to the raw path held in path.
Smooth ==
  /\ lastOp.op = "mount"
  /\ path' = smoothPath(path, obstacles)
  /\ lastOp' = [op |-> "smooth", raw |-> path]
  /\ events' = events + 1
  /\ UNCHANGED <<drone, target, currentPathIndex, obstacles, lidarData, potentialField,
                 rrtTree, stats, algorithmMode, speed, ticks>>
  /\ UNCHANGED life

SpecSmooth == InitSmooth /\ [][Smooth]_vars

(* ---------------- properties ---------------- *)
\* The frame that ran last started in navState st.
TickFrom(st) == lastOp.op = "tick" /\ lastOp.state = st

\* At the start of the frame that ran last a goal was set and the drone was
\* closer to it than the arrival threshold.
WasNear ==
  /\ lastOp.goal # Null
  /\ (lastOp.goal.x - lastOp.pos.x) * (lastOp.goal.x - lastOp.pos.x)
       + (lastOp.goal.y - lastOp.pos.y) * (lastOp.goal.y - lastOp.pos.y)
     < (arrivalThreshold * FP) * (arrivalThreshold * FP)

\* The minimum distance over the sweep of the frame that ran last.
SweepMin == closestObstacle(lidarData)

\* The request that ran last was accepted / was made in mode m and accepted.
Accepted == lastOp.op = "click" /\ lastOp.accepted
AcceptedIn(m) == Accepted /\ algorithmMode = m

\* Every consecutive pair of waypoints of p is in line of sight.
PathClear(p, obs_) == \A i \in 1..(Len(p) - 1) : hasLineOfSight(p[i], p[i + 1], obs_)

\* C1: on a tick that starts in navigating or avoiding with a goal set and
\* the drone closer to it than the arrival threshold, the tick ends idle
\* with the goal cleared and the path empty, whatever the algorithm mode.
C1_Arrival ==
  ((TickFrom("navigating") \/ TickFrom("avoiding")) /\ WasNear)
    => (drone.state = "idle" /\ target = Null /\ path = <<>>)

\* An arrival in the field mode, which follows no path.
C1_Witness ==
  /\ TickFrom("navigating")
  /\ WasNear
  /\ algorithmMode = "apf"
  /\ drone.state = "idle"
  /\ target = Null

\* C2, as amended: a tick that starts in navigating and whose sweep minimum
\* is below SAFE_DISTANCE ends in avoiding, unless the drone is within the
\* arrival threshold of its goal on that tick, and then it ends in idle.
C2_EnterAvoiding ==
  (TickFrom("navigating") /\ SweepMin < SAFE_DISTANCE)
    => drone.state = (IF WasNear THEN "idle" ELSE "avoiding")

C2_Witness ==
  /\ TickFrom("navigating")
  /\ SweepMin < SAFE_DISTANCE
  /\ ~WasNear
  /\ drone.state = "avoiding"

\* C2 as stated: navigating and a sweep minimum below SAFE_DISTANCE always
\* give avoiding after the tick.
C2_Original ==
  (TickFrom("navigating") /\ SweepMin < SAFE_DISTANCE) => drone.state = "avoiding"

\* C3, as amended: a tick that starts in avoiding and whose sweep minimum is
\* above 1.2 * SAFE_DISTANCE ends in navigating, unless the drone is within
\* the arrival threshold of its goal on that tick, and then it ends in idle.
C3_LeaveAvoiding ==
  (TickFrom("avoiding") /\ SweepMin * 10 > SAFE_DISTANCE * 12)
    => drone.state = (IF WasNear THEN "idle" ELSE "navigating")

C3_Witness ==
  /\ TickFrom("avoiding")
  /\ SweepMin * 10 > SAFE_DISTANCE * 12
  /\ ~WasNear
  /\ drone.state = "navigating"

\* C3 as stated: avoiding and a sweep minimum above 1.2 * SAFE_DISTANCE
\* always give navigating after the tick.
C3_Original ==
  (TickFrom("avoiding") /\ SweepMin * 10 > SAFE_DISTANCE * 12) => drone.state = "navigating"

\* The paths a request for goal may store, by mode: the grid planner's
\* path or, when that is empty and the goal is in sight, the direct path;
\* the tree planner's path for some draws; the goal alone.
StoredPlans(mode, start, goal, obs_) ==
  IF mode = "apf" THEN {<<goal>>}
  ELSE IF mode = "rrt" THEN {rrt(start, goal, obs_, d).path : d \in DrawSeqs}
  ELSE {IF astar(start, goal, obs_).path = <<>> /\ hasLineOfSight(start, goal, obs_)
        THEN <<start, goal>>
        ELSE astar(start, goal, obs_).path}

\* C4, as amended: after an accepted click the stored path is exactly the
\* result for the new goal, the cursor is 0, and the goal is the new
\* effective goal when that path is non-empty and is cleared when the plan
\* failed (empty path).
C4_Replaces ==
  Accepted =>
    /\ path \in StoredPlans(algorithmMode, DronePos, lastOp.goal, obstacles)
    /\ currentPathIndex = 0
    /\ target = (IF path = <<>> THEN Null ELSE lastOp.goal)

\* A click accepted one frame into a flight to another goal, still more
\* than the arrival threshold away.
C4_Witness ==
  /\ Accepted
  /\ events = 2
  /\ ticks = 1
  /\ stats.distanceToGoal > arrivalThreshold * FP
  /\ path # <<>>
  /\ target = lastOp.goal

\* C4 as stated: after an accepted click the goal is the new effective goal,
\* also when the new plan fails.
C4_Original ==
  Accepted =>
    /\ path \in StoredPlans(algorithmMode, DronePos, lastOp.goal, obstacles)
    /\ currentPathIndex = 0
    /\ target = lastOp.goal

\* The click at pos lands in the click margin of an obstacle, and none of
\* the four candidates around the first such obstacle is valid.
InvalidClick(pos, obs_) ==
  \E k \in 1..Len(obs_) :
    /\ ClickHits(pos, obs_[k])
    /\ \A j \in 1..(k - 1) : ~ClickHits(pos, obs_[j])
    /\ \A i \in 1..4 : ~CandidateValid(Candidates(obs_[k], pos)[i], obs_)

\* C5: an invalid click changes nothing: goal, path, cursor, drone (its
\* navState with it), tree, statistics, field and obstacles stay as they are.
C5_Ignored ==
  [][(lastOp'.op = "click" /\ events' = events + 1 /\ InvalidClick(lastOp'.pos, obstacles))
       => UNCHANGED <<target, path, currentPathIndex, drone, rrtTree, stats,
                      potentialField, obstacles>>]_vars

\* An invalid click during a flight.
C5_Witness ==
  /\ lastOp.op = "click"
  /\ InvalidClick(lastOp.pos, obstacles)
  /\ drone.state = "navigating"
  /\ path # <<>>
  /\ target # Null

\* c is a valid candidate around obs for the click, and no valid candidate
\* is nearer to the click.
NearestValid(c, obs, click, obs_) ==
  /\ \E i \in 1..4 : Candidates(obs, click)[i] = c
  /\ CandidateValid(c, obs_)
  /\ \A i \in 1..4 :
       CandidateValid(Candidates(obs, click)[i], obs_)
         => Dist2(c, click) <= Dist2(Candidates(obs, click)[i], click)

\* C6: the goal of an accepted click is the click itself when the click is
\* clear of every click margin, else the nearest valid candidate around the
\* first obstacle whose margin it is in; either way the goal is outside
\* every click margin.
C6_EffectiveGoal ==
  Accepted =>
    /\ \A k \in 1..Len(obstacles) : ~ClickHits(lastOp.goal, obstacles[k])
    /\ (\A k \in 1..Len(obstacles) : ~ClickHits(lastOp.pos, obstacles[k]))
         => lastOp.goal = lastOp.pos
    /\ \A k \in 1..Len(obstacles) :
         (ClickHits(lastOp.pos, obstacles[k])
            /\ \A j \in 1..(k - 1) : ~ClickHits(lastOp.pos, obstacles[j]))
           => NearestValid(lastOp.goal, obstacles[k], lastOp.pos, obstacles)

\* A relocated goal that had a rival: two candidates were valid.
C6_Witness ==
  /\ Accepted
  /\ lastOp.goal # lastOp.pos
  /\ \E k \in 1..Len(obstacles) :
       /\ ClickHits(lastOp.pos, obstacles[k])
       /\ Cardinality({i \in 1..4 : CandidateValid(Candidates(obstacles[k], lastOp.pos)[i], obstacles)}) >= 2

\* C7: every consecutive pair of waypoints of the grid planner's path is in
\* line of sight, the first segment out of the start cell included.
C7_AstarClear ==
  AcceptedIn("astar") => PathClear(astar(DronePos, lastOp.goal, obstacles).path, obstacles)

\* A smoothed path of three or more waypoints out of an occupied start cell.
C7_Witness ==
  /\ AcceptedIn("astar")
  /\ CellOf(DronePos) \in occupied(obstacles)
  /\ Len(path) >= 3
  /\ path = astar(DronePos, lastOp.goal, obstacles).path

\* C8: every consecutive pair of waypoints of a non-empty tree-planner path
\* is in line of sight, the pairs with the goal included.
C8_RrtClear ==
  (AcceptedIn("rrt") /\ path # <<>>) => PathClear(path, obstacles)

\* C9, as amended: a tree-planner request that fails stores the empty path
\* and reports as nodesExplored the size of the tree, the start node and one
\* node per accepted extension, which is at most the budget plus one.
C9_RrtFailure ==
  (AcceptedIn("rrt") /\ path = <<>>)
    => /\ stats.nodesExplored = Len(rrtTree) + 1
       /\ stats.nodesExplored <= maxIterations + 1
       /\ stats.pathLength = 0

\* A failure after a tree of more nodes than the budget.
C9_Witness ==
  /\ AcceptedIn("rrt")
  /\ path = <<>>
  /\ stats.nodesExplored = maxIterations + 1
  /\ Len(rrtTree) = maxIterations

\* C9 as stated: a tree-planner request that fails reports nodesExplored
\* equal to the iteration budget.
C9_Original ==
  (AcceptedIn("rrt") /\ path = <<>>) => stats.nodesExplored = maxIterations

\* C10: when the grid planner returns the empty path, the request ends with
\* the direct path and navigating if the goal is in line of sight of the
\* drone, and otherwise with idle, no path and no goal.
C10_Fallback ==
  (AcceptedIn("astar") /\ astar(DronePos, lastOp.goal, obstacles).path = <<>>)
    => IF hasLineOfSight(DronePos, lastOp.goal, obstacles)
       THEN path = <<DronePos, lastOp.goal>> /\ drone.state = "navigating" /\ target = lastOp.goal
       ELSE path = <<>> /\ drone.state = "idle" /\ target = Null

\* The direct path to a goal whose cell the grid planner cannot enter.
C10_Witness ==
  /\ AcceptedIn("astar")
  /\ CellOf(lastOp.goal) \in occupied(obstacles)
  /\ CellOf(lastOp.goal) # CellOf(DronePos)
  /\ path = <<DronePos, lastOp.goal>>
  /\ drone.state = "navigating"

\* C11, as amended: a tree-planner request that fails ends as a failure of
\* the grid planner does, with navState idle, the empty path and the goal
\* cleared; no failed request leaves the goal set.
C11_RrtFailureClears ==
  (AcceptedIn("rrt") /\ path = <<>>)
    => /\ target = Null
       /\ drone.state = "idle"
       /\ currentPathIndex = 0

\* A failed tree-planner request for a goal that was accepted as clicked.
C11_Witness ==
  /\ AcceptedIn("rrt")
  /\ path = <<>>
  /\ lastOp.goal = lastOp.pos
  /\ target = Null
  /\ drone.state = "idle"

\* C11 as stated: a tree-planner request that fails ends with navState idle
\* and the empty path while the goal is still set.
C11_Original ==
  (AcceptedIn("rrt") /\ path = <<>>) => (drone.state = "idle" /\ target = lastOp.goal)

\* C12: the battery level never rises and never falls below zero, whatever
\* step is taken: a frame, a goal request, a reset or a change of setting.
C12_BatteryMonotone ==
  [][drone'.battery <= drone.battery /\ drone'.battery >= 0]_vars

\* The speed of obstacle o, squared, in (1/FP px per frame)^2.
SpeedSq(o) == o.vx * o.vx + o.vy * o.vy

\* C13: every dynamic obstacle stays within the canvas, 0 <= x <= W - width
\* and 0 <= y <= H - height, and after every frame its speed is at most the
\* maximum speed 0.8.  The velocity is kept to 1/FP, the speed taken rounded
\* down and the scaled components rounded to the nearest unit, so a capped
\* speed can stand above 0.8 by less than 2/FP.
C13_ObstaclesBounded ==
  \A i \in 1..Len(obstacles) :
    obstacles[i].type = "dynamic"
      => /\ 0 <= obstacles[i].x /\ obstacles[i].x <= W - obstacles[i].width
         /\ 0 <= obstacles[i].y /\ obstacles[i].y <= H - obstacles[i].height
         /\ SpeedSq(obstacles[i]) < (80 + 2) * (80 + 2)

\* After a frame one UAV stands at the left wall, where the clamp holds it,
\* and one moves at the maximum speed.
C13_Witness ==
  /\ lastOp.op = "tick"
  /\ \E i \in 1..Len(obstacles) :
       obstacles[i].type = "dynamic" /\ obstacles[i].x = 0
  /\ \E i \in 1..Len(obstacles) :
       obstacles[i].type = "dynamic" /\ SpeedSq(obstacles[i]) >= (80 - 2) * (80 - 2)

\* C14: after the reset command, in whatever state it was issued, the
\* obstacle field is a generated one, the path is empty, there is no goal,
\* and the drone is at the start position (50, H/2) with zero velocity and
\* navState idle.
C14_Reset ==
  lastOp.op = "reset"
    => /\ obstacles \in Layouts
       /\ path = <<>>
       /\ target = Null
       /\ drone.x = startX * FP /\ drone.y = H \div 2
       /\ drone.vx = 0 /\ drone.vy = 0
       /\ drone.state = "idle"

\* A reset of a flight under way: the statistics still show the plan and the
\* navState published by the last frame, and the battery has drained.
C14_Witness ==
  /\ lastOp.op = "reset"
  /\ stats.pathLength > 0
  /\ stats.state \in {"navigating", "avoiding"}
  /\ drone.battery < 100 * BFP
  /\ drone.state = "idle"
  /\ target = Null

\* C15: a change of the algorithm setting while a goal is in flight invokes
\* no planner and leaves the path, the cursor, the goal and the navState as
\* they were.
C15_NoReplan ==
  [][(lastOp'.op = "algorithm" /\ algorithmMode' # algorithmMode
        /\ target # Null /\ path # <<>> /\ drone.state \in {"navigating", "avoiding"})
       => /\ UNCHANGED <<path, currentPathIndex, target, rrtTree, stats>>
          /\ drone'.state = drone.state]_vars

\* C16: the cleanup stops the scheduled frame and releases the listeners.
\* Once the view is torn down no frame runs and no input is handled; every
\* frame request the browser holds, and every registered listener, belongs
\* to the live run of the effect; and at most one frame request is held at
\* any time.
C16_Teardown ==
  [][ /\ ~mounted => (ticks' = ticks /\ events' = events)
      /\ Cardinality(pending') <= 1
      /\ \A f \in pending' : mounted' /\ f.inst = instance' /\ f.id = animId'
      /\ listeners' = (IF mounted' THEN {instance'} ELSE {}) ]_vars

\* The view torn down after frames have run and the effect has run again:
\* nothing is scheduled and no listener is left.
C16_Witness ==
  /\ ~mounted
  /\ lastOp.op = "unmount"
  /\ instance >= 2
  /\ ticks >= 2
  /\ pending = {}
  /\ listeners = {}

Nth(K, i) == CHOOSE k \in K : Cardinality({j \in K : j < k}) = i - 1

\* s is r restricted to a set of its indices that holds the first and the
\* last index of r.
KeepsEnds(s, r) ==
  \E K \in SUBSET (1..Len(r)) :
    /\ Cardinality(K) = Len(s)
    /\ r # <<>> => (1 \in K /\ Len(r) \in K)
    /\ \A i \in 1..Len(s) : s[i] = r[Nth(K, i)]

\* C18: for every raw path the smoothing ends, and what it returns is a
\* subsequence of the raw path that starts at its first point, ends at its
\* last point and has no more points than it.
C18_SmoothShrinks ==
  lastOp.op = "smooth"
    => /\ KeepsEnds(path, lastOp.raw)
       /\ Len(path) <= Len(lastOp.raw)

\* A raw path of four points of which the smoothing dropped one and kept a
\* point between the ends.
C18_Witness ==
  /\ lastOp.op = "smooth"
  /\ Len(lastOp.raw) = 4
  /\ Len(path) = 3
  /\ Cardinality({lastOp.raw[i] : i \in 1..4}) = 4

\* The hit point p is on the canvas or within margin of it.
NearCanvas(p, margin) ==
  /\ -margin <= p.x /\ p.x <= W + margin
  /\ -margin <= p.y /\ p.y <= H + margin

\* C19: no ray of a sweep reports a distance above LIDAR_RANGE, and every
\* hit point reported lies on the canvas or at most one step of the march (3)
\* outside it.
C19_SweepBounded ==
  \A i \in 1..Len(lidarData) :
    /\ lidarData[i].distance <= LIDAR_RANGE
    /\ lidarData[i].hit => NearCanvas(lidarData[i].hitPoint, 3 * FP)

\* A sweep with a ray that ran the full range without a hit, a ray that
\* left the canvas and a ray that ended in an obstacle.
C19_Witness ==
  /\ \E i \in 1..Len(lidarData) : ~lidarData[i].hit /\ lidarData[i].distance = LIDAR_RANGE
  /\ \E i \in 1..Len(lidarData) : lidarData[i].hit /\ ~NearCanvas(lidarData[i].hitPoint, 0)
  /\ \E i \in 1..Len(lidarData) : lidarData[i].hit /\ NearCanvas(lidarData[i].hitPoint, 0)

\* C20: a non-empty tree-planner path starts at the root of the tree, the
\* drone's position, and ends at the goal, with the point inserted last, the
\* one that came within a step of the goal, just before the goal.
C20_RrtEndsAtGoal ==
  (AcceptedIn("rrt") /\ path # <<>>)
    => /\ Len(path) >= 2
       /\ path[1] = DronePos
       /\ path[Len(path)] = lastOp.goal
       /\ path[Len(path) - 1] = rrtTree[Len(rrtTree)].to

\* The cells of the grid, and the least of a set of costs.
Cells == (0..(gridW - 1)) \X (0..(gridH - 1))
MinCost(S) == CHOOSE m \in S : \A x \in S : ~CostLess(x, m)

\* The costs of the moves that lead into cell c from a cell that d reaches.
CostsInto(c, d) ==
  { CostAdd(d[<<c[1] - directions[k].dx, c[2] - directions[k].dy>>], directions[k].cost) :
      k \in {j \in 1..Len(directions) :
               <<c[1] - directions[j].dx, c[2] - directions[j].dy>> \in DOMAIN d} }

\* One round of relaxation of the costs d over the cells that may be entered.
Relaxed(d, free) ==
  LET reach == DOMAIN d \cup {c \in free : CostsInto(c, d) # {}}
  IN [c \in reach |->
        MinCost(CostsInto(c, d) \cup (IF c \in DOMAIN d THEN {d[c]} ELSE {}))]

\* The least cost of an 8-connected route from the start cell to every cell
\* such a route reaches through in-bounds cells that are not occupied: the
\* fixed point of the relaxation.
RECURSIVE Cheapest(_, _)
Cheapest(d, free) ==
  LET n == Relaxed(d, free)
  IN IF n = d THEN d ELSE Cheapest(n, free)

CheapestFrom(start, obs_) ==
  [c \in {CellOf(start)} |-> <<0, 0>>] @@ Cheapest([c \in {CellOf(start)} |-> <<0, 0>>], Cells \ occupied(obs_))

\* The cost of the raw route r: 1 for a straight move, sqrt 2 for a diagonal.
RECURSIVE RouteCost(_)
RouteCost(r) ==
  IF Len(r) <= 1 THEN <<0, 0>>
  ELSE CostAdd(RouteCost(Tail(r)),
               IF r[1].x # r[2].x /\ r[1].y # r[2].y THEN <<0, 1>> ELSE <<1, 0>>)

\* C21: the g of every cell astar closes is the least cost of an 8-connected
\* route to it from the start cell through in-bounds unoccupied cells, and
\* the raw route reconstructed at the goal costs the least a route to the
\* goal cell can.
C21_ClosedFinal ==
  AcceptedIn("astar") =>
    LET r == astar(DronePos, lastOp.goal, obstacles)
        best == CheapestFrom(DronePos, obstacles)
    IN /\ \A c \in DOMAIN r.closed : c \in DOMAIN best /\ r.closed[c].g = best[c]
       /\ r.raw # <<>> =>
            /\ RouteCost(r.raw) = best[CellOf(lastOp.goal)]
            /\ r.popped[Len(r.popped)].g = best[CellOf(lastOp.goal)]

\* A search around an obstacle: the raw route bends, has straight and
\* diagonal moves, and more cells were closed than the route has.
C21_Witness ==
  /\ AcceptedIn("astar")
  /\ LET r == astar(DronePos, lastOp.goal, obstacles)
     IN /\ Len(r.raw) >= 4
        /\ RouteCost(r.raw)[1] > 0 /\ RouteCost(r.raw)[2] > 0
        /\ Cardinality(DOMAIN r.closed) > Len(r.raw)
        /\ Len(r.path) >= 3

\* The cells of the nodes astar popped, in the order they were popped.
PoppedCells(r) == [i \in 1..Len(r.popped) |-> r.popped[i].cell]

\* C22: astar ends, and its path is non-empty exactly when the goal cell can
\* be reached from the start cell by 8-connected moves into in-bounds
\* unoccupied cells.  When it cannot, every reachable cell was expanded
\* exactly once and nodesExplored is their number.
C22_AstarComplete ==
  AcceptedIn("astar") =>
    LET r == astar(DronePos, lastOp.goal, obstacles)
        reach == DOMAIN CheapestFrom(DronePos, obstacles)
    IN /\ (r.path # <<>>) <=> (CellOf(lastOp.goal) \in reach)
       /\ r.path = <<>> =>
            /\ r.nodesExplored = Cardinality(reach)
            /\ Len(r.popped) = r.nodesExplored
            /\ {PoppedCells(r)[i] : i \in 1..Len(r.popped)} = reach
       /\ stats.nodesExplored = r.nodesExplored

\* A search that fails after it expanded every one of the many cells it
\* could reach.
C22_Witness ==
  /\ AcceptedIn("astar")
  /\ LET r == astar(DronePos, lastOp.goal, obstacles)
     IN /\ r.path = <<>>
        /\ r.nodesExplored > 20
        /\ r.nodesExplored = Cardinality(DOMAIN CheapestFrom(DronePos, obstacles))

\* C23: over a field without obstacles, for a start and a goal on the canvas
\* whose cells differ, astar itself returns the two-point path from the
\* centre of the start cell to the centre of the goal cell.
C23_OpenField ==
  (AcceptedIn("astar") /\ obstacles = <<>> /\ CellOf(DronePos) # CellOf(lastOp.goal))
    => astar(DronePos, lastOp.goal, obstacles).path
         = <<CellPoint(CellOf(DronePos)), CellPoint(CellOf(lastOp.goal))>>

\* C24: after every frame the speed of every dynamic obstacle lies between
\* the minimum speed 0.25 and the maximum speed 0.8, whatever its velocity
\* was before the frame (to within the 2/FP of the rounding, as in C13).
C24_SpeedBand ==
  lastOp.op = "tick"
    => \A i \in 1..Len(obstacles) :
         obstacles[i].type = "dynamic"
           => /\ SpeedSq(obstacles[i]) > (25 - 2) * (25 - 2)
              /\ SpeedSq(obstacles[i]) < (80 + 2) * (80 + 2)

\* C25: a tick that starts in avoiding with a sweep minimum of at most
\* 1.2 * SAFE_DISTANCE and without arrival ends in avoiding; a tick that
\* starts in navigating with a sweep minimum of at least SAFE_DISTANCE and
\* without arrival ends in navigating; a tick that starts in idle ends in
\* idle.
C25_Hysteresis ==
  /\ (TickFrom("avoiding") /\ SweepMin * 10 <= SAFE_DISTANCE * 12 /\ ~WasNear)
       => drone.state = "avoiding"
  /\ (TickFrom("navigating") /\ SweepMin >= SAFE_DISTANCE /\ ~WasNear)
       => drone.state = "navigating"
  /\ TickFrom("idle") => drone.state = "idle"

\* A tick in avoidance whose sweep minimum is inside the band, above
\* SAFE_DISTANCE and at most 1.2 * SAFE_DISTANCE: the drone keeps avoiding.
C25_Witness ==
  /\ TickFrom("avoiding")
  /\ SweepMin > SAFE_DISTANCE
  /\ SweepMin * 10 <= SAFE_DISTANCE * 12
  /\ ~WasNear
  /\ drone.state = "avoiding"

\* C26: after every tick the drone is inside the canvas inset by the drone
\* radius, DRONE_RADIUS <= x <= W - DRONE_RADIUS and DRONE_RADIUS <= y <=
\* H - DRONE_RADIUS, whatever pull and push the tick applied.
C26_InsideCanvas ==
  lastOp.op = "tick"
    => /\ DRONE_RADIUS * FP <= drone.x /\ drone.x <= W - DRONE_RADIUS * FP
       /\ DRONE_RADIUS * FP <= drone.y /\ drone.y <= H - DRONE_RADIUS * FP

\* A tick has put the moving drone on the boundary of that region.
C26_Witness ==
  /\ lastOp.op = "tick"
  /\ drone.vx # 0 \/ drone.vy # 0
  /\ \/ drone.x = DRONE_RADIUS * FP /\ drone.vx < 0
     \/ drone.x = W - DRONE_RADIUS * FP /\ drone.vx > 0
     \/ drone.y = DRONE_RADIUS * FP /\ drone.vy < 0
     \/ drone.y = H - DRONE_RADIUS * FP /\ drone.vy > 0

\* While the drone navigates or avoids, a goal is set, the path is not empty
\* and the cursor points into it.
NavHasPath ==
  drone.state \in {"navigating", "avoiding"}
    => /\ target # Null
       /\ path # <<>>
       /\ 0 <= currentPathIndex /\ currentPathIndex < Len(path)

\* Over the step the cursor stays or advances by one.
CursorSteps ==
  currentPathIndex <= currentPathIndex' /\ currentPathIndex' <= currentPathIndex + 1

\* C27: in every state, navState navigating or avoiding implies that a goal
\* is set, the path is non-empty and 0 <= cursor < path length; and over
\* every step that is not a goal request the cursor does not decrease and
\* advances by at most one.
C27_Cursor ==
  [][NavHasPath' /\ (lastOp'.op # "click" => CursorSteps)]_vars

\* C28: in every state, navState idle implies that no goal is set and the
\* path is empty, whatever goal requests, arrivals, resets and changes of
\* setting came before.
C28_IdleClean ==
  drone.state = "idle" => (target = Null /\ path = <<>>)

\* C29: a change of the speed multiplier while a goal is in flight changes
\* the speed scaling only: the obstacle field, the drone's pose, velocity,
\* battery and navState, the path, the cursor and the goal are as they were.
C29_SpeedOnly ==
  [][(lastOp'.op = "speed" /\ speed' # speed
        /\ target # Null /\ drone.state \in {"navigating", "avoiding"})
       => UNCHANGED <<obstacles, drone, path, currentPathIndex, target>>]_vars

\* C30: with a path planner, buildings only, fair ticking and no further
\* input, every accepted goal request that puts the drone in navigating is
\* eventually followed by arrival: navState idle, no goal, no path.
C30_Arrives ==
  (Accepted /\ drone.state = "navigating")
    ~> (drone.state = "idle" /\ target = Null /\ path = <<>>)

====
